---- MODULE Spec2Model ----
(***************************************************************************)
(* A model of the social-network ranking engine: the data classes of       *)
(* data.py (User, Post, Comment), the SocialGraph store of algorithm2.py   *)
(* and its three ranking functions, calculate_interest_score,              *)
(* filter_users_by_attributes and find_interesting_users_interactive.      *)
(*                                                                         *)
(* Python values are tagged records (None, int, str), a dict is a function *)
(* whose DOMAIN is its key set, and a dict's iteration order (insertion    *)
(* order) is kept as an explicit sequence wherever the code iterates.      *)
(* Weights and scores are fixed-point numbers in tenths, so the default    *)
(* view_weight 0.1 is the integer 1 and a score of 131.0 is 1310; float    *)
(* rounding is not modelled.                                               *)
(***************************************************************************)
EXTENDS Integers, Sequences, FiniteSets, TLC

VARIABLES
    userObjs,        \* the User objects constructed so far, by username
    postObjs,        \* the Post objects constructed so far, in creation order
    commentObjs,     \* the Comment objects constructed so far, in creation order
    users,           \* SocialGraph.users: the usernames it holds
    posts,           \* SocialGraph.posts: post id -> Post object (its index in postObjs)
    node_order,      \* the key order of SocialGraph.node_data (dict insertion order)
    node_data,       \* SocialGraph.node_data: node id -> attribute bundle
    adjacency_list,  \* SocialGraph.adjacency_list: source id -> sequence of <<target, connection>>
    steps,           \* the number of construction operations performed so far
    op,              \* the last operation performed
    args,            \* the arguments of the last ranking call
    ret              \* the outcome of the last ranking call: Returned(v) or Raised

vars == <<userObjs, postObjs, commentObjs, users, posts, node_order, node_data,
          adjacency_list, steps, op, args, ret>>

graph == <<users, posts, node_order, node_data, adjacency_list>>

objects == <<userObjs, postObjs, commentObjs>>

-----------------------------------------------------------------------------
(* Python values *)

None == [t |-> "none", n |-> 0, s |-> ""]

I(n) == [t |-> "int", n |-> n, s |-> ""]

S(s) == [t |-> "str", n |-> 0, s |-> s]

\* A reference to the User object of a username, held in an attribute bundle.
Ref(s) == [t |-> "ref", n |-> 0, s |-> s]

\* The outcome of a call: it returned value v, or it raised (the TypeError of a
\* comparison of None with a number) and returned nothing.
Returned(v) == [raised |-> FALSE, value |-> v]

Raised == [raised |-> TRUE, value |-> "TypeError"]

\* dict.get(key, default)
Get(d, k, default) == IF k \in DOMAIN d THEN d[k] ELSE default

\* The empty dict.
EmptyDict == <<>>

\* bool(d) of a dict (or of None, which node_attributes never returns for a key of node_data).
Truthy(d) == DOMAIN d # {}

\* a < b raises TypeError unless both are numbers (the strings of the model are never
\* ordered against each other by a filter).
Comparable(a, b) == a.t = "int" /\ b.t = "int"

Max(a, b) == IF a >= b THEN a ELSE b

Min(a, b) == IF a <= b THEN a ELSE b

\* The node ids of the model, in ascending string order (Python's str comparison).
IdsSorted == <<"amy", "bob", "cat", "p1">>

Ids == {IdsSorted[i] : i \in 1..Len(IdsSorted)}

StrRank(s) == CHOOSE i \in 1..Len(IdsSorted) : IdsSorted[i] = s

\* a < b on two strings
StrLess(a, b) == StrRank(a) < StrRank(b)

-----------------------------------------------------------------------------
(* calculate_interest_score *)

DefaultWeight == 10

DefaultViewWeight == 1

PostPivot == 20

LevelPivot == 4

CommentPivot == 100

DefaultLevel == 2

reading_levels == [low |-> 1, medium |-> 2, high |-> 3]

\* A variant of user_reading that numbers the levels from 0.
UserReadingFromZero(user_data) ==
    LET rl == Get(user_data, "reading_level", S("medium"))
    IN  IF rl.t = "str" /\ rl.s \in DOMAIN reading_levels
        THEN reading_levels[rl.s] - 1
        ELSE DefaultLevel - 1

\* reading_levels.get(user_data.get("reading_level", "medium"), 2)
user_reading(user_data) ==
    LET rl == Get(user_data, "reading_level", S("medium"))
    IN  IF rl.t = "str" /\ rl.s \in DOMAIN reading_levels
        THEN reading_levels[rl.s]
        ELSE DefaultLevel

\* A variant of ScoreNoFloor whose second branches are "else:" instead of
\* "elif ... == 'low':".
ScoreElseLow(user_data, criteria) ==
    LET pp == Get(criteria, "post_count_preference", None)
        rp == Get(criteria, "reading_level_preference", None)
        cp == Get(criteria, "comment_preference", None)
        post_count == Get(user_data, "post_count", I(0)).n
        comment_count == Get(user_data, "comment_count", I(0)).n
        total_views == Get(user_data, "total_views", I(0)).n
        post_weight == Get(criteria, "post_weight", I(DefaultWeight)).n
        reading_weight == Get(criteria, "reading_weight", I(DefaultWeight)).n
        comment_weight == Get(criteria, "comment_weight", I(DefaultWeight)).n
        view_weight == Get(criteria, "view_weight", I(DefaultViewWeight)).n
        s1 == IF pp = S("high") THEN post_count * post_weight
              ELSE (PostPivot - post_count) * post_weight
        s2 == IF rp = S("high") THEN s1 + user_reading(user_data) * reading_weight
              ELSE s1 + (LevelPivot - user_reading(user_data)) * reading_weight
        s3 == IF cp = S("high") THEN s2 + comment_count * comment_weight
              ELSE s2 + (CommentPivot - comment_count) * comment_weight
    IN  s3 + total_views * view_weight

\* The score before the final max(0, score), in tenths.
ScoreNoFloor(user_data, criteria) ==
    LET pp == Get(criteria, "post_count_preference", None)
        rp == Get(criteria, "reading_level_preference", None)
        cp == Get(criteria, "comment_preference", None)
        post_count == Get(user_data, "post_count", I(0)).n
        comment_count == Get(user_data, "comment_count", I(0)).n
        total_views == Get(user_data, "total_views", I(0)).n
        post_weight == Get(criteria, "post_weight", I(DefaultWeight)).n
        reading_weight == Get(criteria, "reading_weight", I(DefaultWeight)).n
        comment_weight == Get(criteria, "comment_weight", I(DefaultWeight)).n
        view_weight == Get(criteria, "view_weight", I(DefaultViewWeight)).n
        s0 == 0
        s1 == IF pp = S("high") THEN s0 + post_count * post_weight
              ELSE IF pp = S("low") THEN s0 + (PostPivot - post_count) * post_weight
              ELSE s0
        s2 == IF rp = S("high") THEN s1 + user_reading(user_data) * reading_weight
              ELSE IF rp = S("low")
                   THEN s1 + (LevelPivot - user_reading(user_data)) * reading_weight
              ELSE s1
        s3 == IF cp = S("high") THEN s2 + comment_count * comment_weight
              ELSE IF cp = S("low") THEN s2 + (CommentPivot - comment_count) * comment_weight
              ELSE s2
    IN  s3 + total_views * view_weight

\* A variant of calculate_interest_score without the final max(0, score).
ScoreUnclamped(user_data, criteria) == ScoreNoFloor(user_data, criteria)

calculate_interest_score(user_data, criteria) ==
    Max(0, ScoreNoFloor(user_data, criteria))

-----------------------------------------------------------------------------
(* filter_users_by_attributes *)

AgeMinDefault == 0

AgeMaxDefault == 100

\* A variant of EntryOutcome whose age_max default is 0, as age_min's.
EntryOutcomeMaxDefaultZero(nd, attr, value) ==
    IF attr = "age_min"
    THEN IF ~Comparable(Get(nd, "age", I(AgeMinDefault)), value) THEN "raise"
         ELSE IF Get(nd, "age", I(AgeMinDefault)).n < value.n THEN "fail"
         ELSE "pass"
    ELSE IF attr = "age_max"
    THEN IF ~Comparable(Get(nd, "age", I(AgeMinDefault)), value) THEN "raise"
         ELSE IF Get(nd, "age", I(AgeMinDefault)).n > value.n THEN "fail"
         ELSE "pass"
    ELSE IF Get(nd, attr, None) # value THEN "fail"
    ELSE "pass"

\* A variant of EntryOutcome that reads comment_count_min and post_count_max as range
\* bounds on comment_count and post_count.
EntryOutcomeAnyRange(nd, attr, value) ==
    IF attr = "age_min"
    THEN IF ~Comparable(Get(nd, "age", I(AgeMinDefault)), value) THEN "raise"
         ELSE IF Get(nd, "age", I(AgeMinDefault)).n < value.n THEN "fail"
         ELSE "pass"
    ELSE IF attr = "age_max"
    THEN IF ~Comparable(Get(nd, "age", I(AgeMaxDefault)), value) THEN "raise"
         ELSE IF Get(nd, "age", I(AgeMaxDefault)).n > value.n THEN "fail"
         ELSE "pass"
    ELSE IF attr = "comment_count_min"
    THEN IF Get(nd, "comment_count", I(AgeMinDefault)).n < value.n THEN "fail" ELSE "pass"
    ELSE IF attr = "post_count_max"
    THEN IF Get(nd, "post_count", I(AgeMaxDefault)).n > value.n THEN "fail" ELSE "pass"
    ELSE IF Get(nd, attr, None) # value THEN "fail"
    ELSE "pass"

\* One pass of the loop body over a filter entry (attr, value): "fail" when the entry
\* sets matches_all_filters to False and breaks, "raise" when a comparison raises
\* TypeError, "pass" when the loop goes on to the next entry.
EntryOutcome(nd, attr, value) ==
    IF attr = "age_min"
    THEN IF ~Comparable(Get(nd, "age", I(AgeMinDefault)), value) THEN "raise"
         ELSE IF Get(nd, "age", I(AgeMinDefault)).n < value.n THEN "fail"
         ELSE "pass"
    ELSE IF attr = "age_max"
    THEN IF ~Comparable(Get(nd, "age", I(AgeMaxDefault)), value) THEN "raise"
         ELSE IF Get(nd, "age", I(AgeMaxDefault)).n > value.n THEN "fail"
         ELSE "pass"
    ELSE IF Get(nd, attr, None) # value THEN "fail"
    ELSE "pass"

\* The loop over attribute_filters.items(), from entry i on: it stops at the first
\* entry that fails (break) or raises.
RECURSIVE MatchFrom(_, _, _)
MatchFrom(nd, filters, i) ==
    IF i > Len(filters) THEN "pass"
    ELSE LET o == EntryOutcome(nd, filters[i][1], filters[i][2])
         IN  IF o = "pass" THEN MatchFrom(nd, filters, i + 1) ELSE o

\* The loop over network.all_nodes(), from node i on, with the list built so far.
RECURSIVE FilterFrom(_, _, _, _, _)
FilterFrom(order, data, filters, i, filtered_users) ==
    IF i > Len(order) THEN Returned(filtered_users)
    ELSE LET node_id == order[i]
             nd == data[node_id]
         IN  IF Truthy(nd) /\ Get(nd, "type", None) = S("user")
             THEN LET o == MatchFrom(nd, filters, 1)
                  IN  IF o = "raise" THEN Raised
                      ELSE IF o = "pass"
                      THEN FilterFrom(order, data, filters, i + 1,
                                      Append(filtered_users, <<node_id, nd>>))
                      ELSE FilterFrom(order, data, filters, i + 1, filtered_users)
             ELSE FilterFrom(order, data, filters, i + 1, filtered_users)

\* A variant of filter_users_by_attributes whose loop starts at the second node.
FilterSkipsFirstNode(order, data, filters) ==
    FilterFrom(order, data, filters, 2, <<>>)

filter_users_by_attributes(order, data, filters) ==
    FilterFrom(order, data, filters, 1, <<>>)

-----------------------------------------------------------------------------
(* heapq, as find_interesting_users_interactive uses it.  Positions are      *)
(* Python's (from 0); heap[pos] is h[pos + 1].                               *)

\* A variant of ItemLess that breaks a tie of scores by the greater id.
ItemLessIdDescending(a, b) ==
    IF a[1] # b[1] THEN a[1] < b[1] ELSE StrLess(b[2], a[2])

\* a < b on two heap entries (-score, user_id, user_data): tuples compare by their
\* first differing component.  Two entries never agree on user_id, the ids being the
\* keys of one dict, so the dicts in the third place are never compared.
ItemLess(a, b) ==
    IF a[1] # b[1] THEN a[1] < b[1] ELSE StrLess(a[2], b[2])

RECURSIVE SiftDownLoop(_, _, _, _)
SiftDownLoop(h, startpos, pos, newitem) ==
    IF pos > startpos
    THEN LET parentpos == (pos - 1) \div 2
             parent == h[parentpos + 1]
         IN  IF ItemLess(newitem, parent)
             THEN SiftDownLoop([h EXCEPT ![pos + 1] = parent], startpos, parentpos, newitem)
             ELSE [h EXCEPT ![pos + 1] = newitem]
    ELSE [h EXCEPT ![pos + 1] = newitem]

siftdown(h, startpos, pos) == SiftDownLoop(h, startpos, pos, h[pos + 1])

\* The loop of _siftup: the smaller child bubbles up until a leaf is hit; the result
\* is the heap and the leaf position.
RECURSIVE SiftUpLoop(_, _, _)
SiftUpLoop(h, pos, endpos) ==
    LET childpos == 2 * pos + 1
        rightpos == childpos + 1
    IN  IF childpos < endpos
        THEN LET c == IF rightpos < endpos /\ ~ItemLess(h[childpos + 1], h[rightpos + 1])
                      THEN rightpos
                      ELSE childpos
             IN  SiftUpLoop([h EXCEPT ![pos + 1] = h[c + 1]], c, endpos)
        ELSE <<h, pos>>

siftup(h, pos) ==
    LET newitem == h[pos + 1]
        r == SiftUpLoop(h, pos, Len(h))
    IN  siftdown([r[1] EXCEPT ![r[2] + 1] = newitem], pos, r[2])

heappush(h, item) == siftdown(Append(h, item), 0, Len(h))

\* A variant of heappop that moves the last entry to the root and does not sift it.
HeapPopNoSift(h) ==
    LET lastelt == h[Len(h)]
        rest == SubSeq(h, 1, Len(h) - 1)
    IN  IF rest # <<>>
        THEN <<rest[1], [rest EXCEPT ![1] = lastelt]>>
        ELSE <<lastelt, rest>>

\* <<the popped entry, the heap left>>
heappop(h) ==
    LET lastelt == h[Len(h)]
        rest == SubSeq(h, 1, Len(h) - 1)
    IN  IF rest # <<>>
        THEN <<rest[1], siftup([rest EXCEPT ![1] = lastelt], 0)>>
        ELSE <<lastelt, rest>>

-----------------------------------------------------------------------------
(* find_interesting_users_interactive *)

\* The else branch: every node whose type is "user", in all_nodes order.
RECURSIVE AllUsersFrom(_, _, _)
AllUsersFrom(order, data, i) ==
    IF i > Len(order) THEN <<>>
    ELSE IF Get(data[order[i]], "type", None) = S("user")
         THEN <<<<order[i], data[order[i]]>>>> \o AllUsersFrom(order, data, i + 1)
         ELSE AllUsersFrom(order, data, i + 1)

\* attribute_filters is a dict or None; both None and {} are falsy and are the empty
\* sequence here.
CandidateUsers(order, data, filters) ==
    IF filters # <<>>
    THEN filter_users_by_attributes(order, data, filters)
    ELSE Returned(AllUsersFrom(order, data, 1))

\* The scoring loop: one heappush per candidate.
RECURSIVE PushAll(_, _, _, _)
PushAll(candidate_users, criteria, i, user_scores) ==
    IF i > Len(candidate_users) THEN user_scores
    ELSE LET user_id == candidate_users[i][1]
             user_data == candidate_users[i][2]
             interest_score == calculate_interest_score(user_data, criteria)
         IN  PushAll(candidate_users, criteria, i + 1,
                     heappush(user_scores, <<-interest_score, user_id, user_data>>))

\* The extraction loop: n more iterations of range(min(num_users, len(user_scores))).
RECURSIVE PopN(_, _, _)
PopN(user_scores, n, interesting_users) ==
    IF n <= 0 THEN interesting_users
    ELSE IF user_scores # <<>>
         THEN LET p == heappop(user_scores)
              IN  PopN(p[2], n - 1,
                       Append(interesting_users,
                              [user_id |-> p[1][2], score |-> -p[1][1], data |-> p[1][3]]))
         ELSE PopN(user_scores, n - 1, interesting_users)

\* The ranking of a candidate list: the heap is filled, then popped.
RankCandidates(candidate_users, criteria, num_users) ==
    LET user_scores == PushAll(candidate_users, criteria, 1, <<>>)
    IN  PopN(user_scores, Min(num_users, Len(user_scores)), <<>>)

find_interesting_users_interactive(order, data, criteria, filters, num_users) ==
    LET candidate_users == CandidateUsers(order, data, filters)
    IN  IF candidate_users.raised THEN Raised
        ELSE Returned(RankCandidates(candidate_users.value, criteria, num_users))

-----------------------------------------------------------------------------
(* data.py: User, Post, Comment.  Timestamps and real names are not modelled. *)

\* User(username, age=..., gender=..., region=...): the omitted options are None.
NewUserObj(username, age, gender, region) ==
    [username |-> username, age |-> age, gender |-> gender, region |-> region,
     posts |-> <<>>, viewed_posts |-> <<>>, comments_authored |-> <<>>]

\* Post(post_id, author_username, content)
NewPostObj(post_id, author_username, content) ==
    [id |-> post_id, author_username |-> author_username, content |-> content,
     comments |-> <<>>, views |-> <<>>]

\* Comment(comment_id, author_username, content)
NewCommentObj(comment_id, author_username) ==
    [id |-> comment_id, author_username |-> author_username]

-----------------------------------------------------------------------------
(* SocialGraph: the derived metrics *)

Whitespace == {" ", "\t", "\n"}

HighLength == 6

MediumLength == 4

\* content.split(): the lengths of the maximal runs of non-whitespace characters,
\* scanning from character i with cur characters of the current word read.
RECURSIVE WordLengthsFrom(_, _, _)
WordLengthsFrom(content, i, cur) ==
    IF i > Len(content)
    THEN IF cur > 0 THEN <<cur>> ELSE <<>>
    ELSE IF content[i] \in Whitespace
         THEN (IF cur > 0 THEN <<cur>> ELSE <<>>) \o WordLengthsFrom(content, i + 1, 0)
         ELSE WordLengthsFrom(content, i + 1, cur + 1)

RECURSIVE SumSeq(_)
SumSeq(q) == IF q = <<>> THEN 0 ELSE Head(q) + SumSeq(Tail(q))

\* The comparison with >= in the place of >.
AvgWordLengthAtLeast(words, bound) ==
    IF words # <<>> THEN SumSeq(words) >= bound * Len(words) ELSE 0 >= bound

\* avg_word_length > bound, the average being sum / len(words) if words else 0.
AvgWordLengthAbove(words, bound) ==
    IF words # <<>> THEN SumSeq(words) > bound * Len(words) ELSE 0 > bound

estimate_reading_level(content) ==
    IF content = <<>> THEN "low"
    ELSE LET words == WordLengthsFrom(content, 1, 0)
         IN  IF AvgWordLengthAbove(words, HighLength) THEN "high"
             ELSE IF AvgWordLengthAbove(words, MediumLength) THEN "medium"
             ELSE "low"

\* reading_levels.get(self._estimate_reading_level(post.content), 2) of each post
LevelsOf(pobjs, user_posts) ==
    [i \in 1..Len(user_posts) |->
        reading_levels[estimate_reading_level(pobjs[user_posts[i]].content)]]

ViewCountsOf(pobjs, user_posts) ==
    [i \in 1..Len(user_posts) |-> Len(pobjs[user_posts[i]].views)]

\* _calculate_user_metrics: avg <= 1.5 is 2 * sum <= 3 * n, avg <= 2.5 is 2 * sum <= 5 * n.
calculate_user_metrics(pobjs, user_obj) ==
    LET n == Len(user_obj.posts)
        total == SumSeq(LevelsOf(pobjs, user_obj.posts))
    IN  [total_views |-> SumSeq(ViewCountsOf(pobjs, user_obj.posts)),
         avg_reading_level |->
            IF n > 0
            THEN IF 2 * total <= 3 * n THEN "low"
                 ELSE IF 2 * total <= 5 * n THEN "medium"
                 ELSE "high"
            ELSE "medium"]

calculate_post_metrics(post_obj) ==
    [reading_level |-> estimate_reading_level(post_obj.content)]

-----------------------------------------------------------------------------
(* SocialGraph: the store *)

\* d[k] = v on a dict: a new key goes last in the iteration order, an existing key
\* keeps its place.
KeyOrderAfterSet(order, k) ==
    IF \E i \in 1..Len(order) : order[i] = k THEN order ELSE Append(order, k)

DictSet(d, k, v) == (k :> v) @@ d

\* The bundle add_user stores.
UserNode(pobjs, user_obj) ==
    LET user_metrics == calculate_user_metrics(pobjs, user_obj)
    IN  [type |-> S("user"),
         post_count |-> I(Len(user_obj.posts)),
         total_views |-> I(user_metrics.total_views),
         age |-> user_obj.age,
         gender |-> user_obj.gender,
         location |-> user_obj.region,
         comment_count |-> I(Len(user_obj.comments_authored)),
         reading_level |-> S(user_metrics.avg_reading_level),
         user_obj |-> Ref(user_obj.username)]

\* A reference to the Post object of index p.
PostRef(p) == [t |-> "ref", n |-> p, s |-> "post"]

\* The bundle add_post stores for the Post object of index p.
PostNode(post_obj, p) ==
    [type |-> S("post"),
     view_count |-> I(Len(post_obj.views)),
     comment_count |-> I(Len(post_obj.comments)),
     reading_level |-> S(calculate_post_metrics(post_obj).reading_level),
     post_obj |-> PostRef(p)]

\* add_edge: adjacency_list is a defaultdict(list).
add_edge(adj, source, target, connection) ==
    IF source \in DOMAIN adj
    THEN [adj EXCEPT ![source] = Append(@, <<target, connection>>)]
    ELSE (source :> <<<<target, connection>>>>) @@ adj

\* The loop of add_post over post_obj.views, from view i on.
RECURSIVE AddViewEdges(_, _, _, _)
AddViewEdges(adj, views, target, i) ==
    IF i > Len(views) THEN adj
    ELSE AddViewEdges(add_edge(adj, views[i], target, "viewed"), views, target, i + 1)

-----------------------------------------------------------------------------
(* Bounds and the inputs the operations are exercised with *)

\* The number of construction operations (User, make_post, view_a_post,
\* comment_on_a_post, add_user, add_post) in a run.
MaxOps == 4

MaxNodes == 3

Usernames == {"amy", "bob"}

\* A post id may be any string, the username of a user included.
PostIds == {"p1", "bob"}

CommentIds == {"c1"}

\* "hi all" (mean word length 2.5) and "wonderful" (9).
Contents == {<<"h", "i", " ", "a", "l", "l">>,
             <<"w", "o", "n", "d", "e", "r", "f", "u", "l">>}

\* User("amy") and User("amy", age=25, gender="female", region="Seoul").
Profiles == {[age |-> None, gender |-> None, region |-> None],
             [age |-> I(25), gender |-> S("female"), region |-> S("Seoul")]}

Entry(attr, value) == <<attr, value>>

\* The filter specs and criteria of ranking calls on a built graph.
BuiltFilters ==
    {<<>>,
     <<Entry("age_min", I(24))>>,
     <<Entry("gender", S("female")), Entry("age_max", I(26))>>}

BuiltCriteria ==
    {[post_count_preference |-> S("high"), post_weight |-> I(20)],
     [comment_preference |-> S("low"), reading_level_preference |-> S("high")]}

BuiltTopK == {2}

-----------------------------------------------------------------------------
(* The operations *)

NoArgs == <<>>

NoResult == Returned(<<>>)

Built ==
    /\ steps < MaxOps
    /\ steps' = steps + 1
    /\ op' = "build"
    /\ args' = NoArgs
    /\ ret' = NoResult

\* user = User(username, age=..., gender=..., region=...)
NewUser(username, profile) ==
    /\ username \notin DOMAIN userObjs
    /\ userObjs' = DictSet(userObjs, username,
                           NewUserObj(username, profile.age, profile.gender, profile.region))
    /\ UNCHANGED <<postObjs, commentObjs, graph>>
    /\ Built

\* user.make_post(post_id, content)
make_post(username, post_id, content) ==
    /\ username \in DOMAIN userObjs
    /\ postObjs' = Append(postObjs, NewPostObj(post_id, username, content))
    /\ userObjs' = [userObjs EXCEPT ![username].posts = Append(@, Len(postObjs) + 1)]
    /\ UNCHANGED <<commentObjs, graph>>
    /\ Built

\* user.view_a_post(post_obj)
view_a_post(username, p) ==
    /\ username \in DOMAIN userObjs
    /\ p \in 1..Len(postObjs)
    /\ userObjs' = [userObjs EXCEPT ![username].viewed_posts = Append(@, p)]
    /\ postObjs' = [postObjs EXCEPT ![p].views = Append(@, username)]
    /\ UNCHANGED <<commentObjs, graph>>
    /\ Built

\* A comment_on_a_post that adds the comment to the post and not to the list of
\* its author.
CommentNotRecordedByAuthor(username, comment_id, p) ==
    /\ username \in DOMAIN userObjs
    /\ p \in 1..Len(postObjs)
    /\ commentObjs' = Append(commentObjs, NewCommentObj(comment_id, username))
    /\ postObjs' = [postObjs EXCEPT ![p].comments = Append(@, Len(commentObjs) + 1)]
    /\ UNCHANGED <<userObjs, graph>>
    /\ Built

\* user.comment_on_a_post(comment_id, post_obj, content)
comment_on_a_post(username, comment_id, p) ==
    /\ username \in DOMAIN userObjs
    /\ p \in 1..Len(postObjs)
    /\ commentObjs' = Append(commentObjs, NewCommentObj(comment_id, username))
    /\ userObjs' = [userObjs EXCEPT
                      ![username].comments_authored = Append(@, Len(commentObjs) + 1)]
    /\ postObjs' = [postObjs EXCEPT ![p].comments = Append(@, Len(commentObjs) + 1)]
    /\ UNCHANGED graph
    /\ Built

\* network.add_user(user_obj)
add_user(username) ==
    /\ username \in DOMAIN userObjs
    /\ users' = users \cup {username}
    /\ node_data' = DictSet(node_data, username, UserNode(postObjs, userObjs[username]))
    /\ node_order' = KeyOrderAfterSet(node_order, username)
    /\ UNCHANGED <<posts, adjacency_list, objects>>
    /\ Built

\* network.add_post(post_obj)
add_post(p) ==
    /\ p \in 1..Len(postObjs)
    /\ posts' = DictSet(posts, postObjs[p].id, p)
    /\ node_data' = DictSet(node_data, postObjs[p].id, PostNode(postObjs[p], p))
    /\ node_order' = KeyOrderAfterSet(node_order, postObjs[p].id)
    /\ adjacency_list' =
          AddViewEdges(add_edge(adjacency_list, postObjs[p].author_username,
                                postObjs[p].id, "created"),
                       postObjs[p].views, postObjs[p].id, 1)
    /\ UNCHANGED <<users, objects>>
    /\ Built

\* The ids of the user nodes of the store.
UserNodesOf(data) == {id \in DOMAIN data : data[id].type = S("user")}

\* calculate_interest_score(user_data, criteria)
ScoreCall(user_data, criteria) ==
    /\ op' = "calculate_interest_score"
    /\ args' = [user_data |-> user_data, criteria |-> criteria]
    /\ ret' = Returned(calculate_interest_score(user_data, criteria))
    /\ UNCHANGED <<graph, objects, steps>>

\* filter_users_by_attributes(network, attribute_filters)
FilterCall(filters) ==
    /\ op' = "filter_users_by_attributes"
    /\ args' = [filters |-> filters]
    /\ ret' = filter_users_by_attributes(node_order, node_data, filters)
    /\ UNCHANGED <<graph, objects, steps>>

\* A ranking that looks up network.adjacency_list[user_id] for every user node: a
\* lookup in a defaultdict(list) inserts the empty list under a key it does not hold.
FindCallProbingEdges(criteria, filters, num_users) ==
    /\ op' = "find_interesting_users_interactive"
    /\ args' = [criteria |-> criteria, filters |-> filters, num_users |-> num_users]
    /\ ret' = find_interesting_users_interactive(node_order, node_data, criteria,
                                                 filters, num_users)
    /\ adjacency_list' =
          [id \in UserNodesOf(node_data) \ DOMAIN adjacency_list |-> <<>>]
             @@ adjacency_list
    /\ UNCHANGED <<users, posts, node_order, node_data, objects, steps>>

\* find_interesting_users_interactive(network, criteria, attribute_filters, num_users)
FindCall(criteria, filters, num_users) ==
    /\ op' = "find_interesting_users_interactive"
    /\ args' = [criteria |-> criteria, filters |-> filters, num_users |-> num_users]
    /\ ret' = find_interesting_users_interactive(node_order, node_data, criteria,
                                                 filters, num_users)
    /\ UNCHANGED <<graph, objects, steps>>

-----------------------------------------------------------------------------
(* The program: users, posts, views and comments are created, users and posts are  *)
(* added to an initially empty SocialGraph, and ranking calls are made on it.      *)

Init ==
    /\ userObjs = EmptyDict
    /\ postObjs = <<>>
    /\ commentObjs = <<>>
    /\ users = {}
    /\ posts = EmptyDict
    /\ node_order = <<>>
    /\ node_data = EmptyDict
    /\ adjacency_list = EmptyDict
    /\ steps = 0
    /\ op = "init"
    /\ args = NoArgs
    /\ ret = NoResult

Next ==
    \/ \E u \in Usernames, pr \in Profiles : NewUser(u, pr)
    \/ \E u \in Usernames, id \in PostIds, c \in Contents : make_post(u, id, c)
    \/ \E u \in Usernames, p \in 1..Len(postObjs) : view_a_post(u, p)
    \/ \E u \in Usernames, cid \in CommentIds, p \in 1..Len(postObjs) : comment_on_a_post(u, cid, p)
    \/ \E u \in Usernames : add_user(u)
    \/ \E p \in 1..Len(postObjs) : add_post(p)
    \/ \E id \in UserNodesOf(node_data), c \in BuiltCriteria : ScoreCall(node_data[id], c)
    \/ \E f \in BuiltFilters : FilterCall(f)
    \/ \E c \in BuiltCriteria, f \in BuiltFilters, k \in BuiltTopK : FindCall(c, f, k)

Spec == Init /\ [][Next]_vars

-----------------------------------------------------------------------------
(* The ranking functions on their own: the inputs are drawn in the initial state   *)
(* and the one step applies the function to them.                                  *)

NoObjects ==
    /\ userObjs = EmptyDict
    /\ postObjs = <<>>
    /\ commentObjs = <<>>
    /\ users = {}
    /\ posts = EmptyDict
    /\ adjacency_list = EmptyDict
    /\ steps = 0

Pending == op = "init" /\ ret = NoResult

\* The bundle add_user stores for an active user, for a heavy poster and commenter
\* (counts above 20 and 100), and for User("x") with every option omitted.
PoolActive ==
    [type |-> S("user"), post_count |-> I(18), total_views |-> I(35), age |-> I(25),
     gender |-> S("female"), location |-> S("Seoul"), comment_count |-> I(1),
     reading_level |-> S("high")]

PoolHeavy ==
    [type |-> S("user"), post_count |-> I(25), total_views |-> I(0), age |-> I(35),
     gender |-> S("male"), location |-> S("Busan"), comment_count |-> I(120),
     reading_level |-> S("low")]

PoolBlank ==
    [type |-> S("user"), post_count |-> I(0), total_views |-> I(0), age |-> None,
     gender |-> None, location |-> None, comment_count |-> I(0),
     reading_level |-> S("medium")]

\* A user bundle with no age, gender or location key, and with an attribute that is
\* literally named comment_count_min.
PoolSparse ==
    [type |-> S("user"), post_count |-> I(18), comment_count |-> I(1),
     comment_count_min |-> I(2)]

\* The bundle add_post stores.
PoolPost ==
    [type |-> S("post"), view_count |-> I(2), comment_count |-> I(2),
     reading_level |-> S("low")]

Injective(f) == \A i, j \in DOMAIN f : f[i] = f[j] => i = j

\* A network of at most MaxNodes nodes: node_data's key order and its bundles.
DrawNetwork(pool) ==
    \E n \in 0..Min(MaxNodes, Len(IdsSorted)) :
        \E order \in [1..n -> Ids] :
            /\ Injective(order)
            /\ node_order = order
            /\ node_data \in [{order[i] : i \in 1..n} -> pool]

(* calculate_interest_score *)

OptionalKey(k, values) == {EmptyDict} \cup {k :> v : v \in values}

ScoreBundles ==
    {[type |-> S("user")] @@ p @@ r @@ c @@ v :
        p \in OptionalKey("post_count", {I(0), I(8), I(25)}),
        r \in OptionalKey("reading_level", {S("low"), S("medium"), S("high"), S("expert")}),
        c \in OptionalKey("comment_count", {I(5), I(120)}),
        v \in OptionalKey("total_views", {I(35)})}

Preferences == {S("high"), S("low"), S("medium"), None}

WeightOptions ==
    {EmptyDict,
     [post_weight |-> I(20), view_weight |-> I(1)],
     [post_weight |-> I(-10), reading_weight |-> I(-10), comment_weight |-> I(5),
      view_weight |-> I(-1)]}

ScoreCriteria ==
    {p @@ r @@ c @@ w :
        p \in OptionalKey("post_count_preference", Preferences),
        r \in OptionalKey("reading_level_preference", Preferences),
        c \in OptionalKey("comment_preference", Preferences),
        w \in WeightOptions}

InitScore ==
    /\ NoObjects
    /\ node_order = <<>>
    /\ node_data = EmptyDict
    /\ Pending
    /\ args \in [user_data : ScoreBundles, criteria : ScoreCriteria]

NextScore ==
    /\ op = "init"
    /\ "user_data" \in DOMAIN args
    /\ ScoreCall(args.user_data, args.criteria)

SpecScore == InitScore /\ [][NextScore]_vars

(* filter_users_by_attributes *)

FilterPool == {PoolActive, PoolHeavy, PoolBlank, PoolSparse, PoolPost}

FilterSpecs ==
    {<<>>,
     <<Entry("age_min", I(30))>>,
     <<Entry("age_max", I(30))>>,
     <<Entry("age_min", I(25))>>,
     <<Entry("gender", S("female"))>>,
     <<Entry("gender", None)>>,
     <<Entry("comment_count_min", I(2))>>,
     <<Entry("post_count_max", I(20))>>,
     <<Entry("gender", S("female")), Entry("age_min", I(30))>>,
     <<Entry("age_min", I(30)), Entry("gender", S("female"))>>,
     <<Entry("location", S("Seoul")), Entry("age_min", I(24)), Entry("age_max", I(26))>>}

InitFilter ==
    /\ NoObjects
    /\ DrawNetwork(FilterPool)
    /\ Pending
    /\ args \in [filters : FilterSpecs]

NextFilter ==
    /\ op = "init"
    /\ DOMAIN args = {"filters"}
    /\ FilterCall(args.filters)

SpecFilter == InitFilter /\ [][NextFilter]_vars

(* find_interesting_users_interactive *)

FindPool == {PoolActive, PoolHeavy, PoolSparse, PoolPost}

FindFilters == {<<>>, <<Entry("gender", S("female"))>>}

\* Example 1 of the script, a criteria under which PoolActive and PoolSparse tie, and
\* one under which PoolHeavy's total is negative.
FindCriteria ==
    {[post_count_preference |-> S("high"), post_weight |-> I(20), view_weight |-> I(1)],
     [post_count_preference |-> S("high"), view_weight |-> I(0)],
     [post_count_preference |-> S("low"), post_weight |-> I(20),
      comment_preference |-> S("low")]}

InitFind ==
    /\ NoObjects
    /\ DrawNetwork(FindPool)
    /\ Pending
    /\ args \in [criteria : FindCriteria, filters : FindFilters,
                 num_users : -1..(MaxNodes + 1)]

NextFind ==
    /\ op = "init"
    /\ "num_users" \in DOMAIN args
    /\ FindCall(args.criteria, args.filters, args.num_users)

SpecFind == InitFind /\ [][NextFind]_vars

(* calculate_interest_score and find_interesting_users_interactive together *)

InitRank == InitScore \/ InitFind

NextRank == NextScore \/ NextFind

SpecRank == InitRank /\ [][NextRank]_vars

-----------------------------------------------------------------------------
(* The scoring contract, as the specification states it (section 4.4), in tenths. *)

Scored == op = "calculate_interest_score"

\* The weight of a term: the explicit one, or the default 1 (0.1 for view_weight).
ClaimWeight(criteria, key) ==
    IF key \in DOMAIN criteria THEN criteria[key].n
    ELSE IF key = "view_weight" THEN 1 ELSE 10

\* A count of the bundle; a bundle without the key counts 0.
ClaimCount(user_data, key) == IF key \in DOMAIN user_data THEN user_data[key].n ELSE 0

\* low 1, medium 2, high 3; a bundle without a level, or with an unknown one, counts
\* as medium.
ClaimLevel(user_data) ==
    IF "reading_level" \in DOMAIN user_data /\ user_data.reading_level = S("low") THEN 1
    ELSE IF "reading_level" \in DOMAIN user_data /\ user_data.reading_level = S("high") THEN 3
    ELSE 2

\* The contribution of one preference: x * weight for "high", (pivot - x) * weight
\* for "low", 0 otherwise.
ClaimTerm(criteria, prefKey, weightKey, x, pivot) ==
    IF prefKey \in DOMAIN criteria /\ criteria[prefKey] = S("high")
    THEN x * ClaimWeight(criteria, weightKey)
    ELSE IF prefKey \in DOMAIN criteria /\ criteria[prefKey] = S("low")
    THEN (pivot - x) * ClaimWeight(criteria, weightKey)
    ELSE 0

ClaimTotal(user_data, criteria) ==
    ClaimTerm(criteria, "post_count_preference", "post_weight",
              ClaimCount(user_data, "post_count"), 20)
    + ClaimTerm(criteria, "reading_level_preference", "reading_weight",
                ClaimLevel(user_data), 4)
    + ClaimTerm(criteria, "comment_preference", "comment_weight",
                ClaimCount(user_data, "comment_count"), 100)
    + ClaimCount(user_data, "total_views") * ClaimWeight(criteria, "view_weight")

ClaimScore(user_data, criteria) ==
    IF ClaimTotal(user_data, criteria) > 0 THEN ClaimTotal(user_data, criteria) ELSE 0

PreferenceKeys == {"post_count_preference", "reading_level_preference", "comment_preference"}

Without(d, k) == [x \in DOMAIN d \ {k} |-> d[x]]

\* C3: calculate_interest_score returns max(0, P + R + C + V): P, R and C are
\* x * weight for preference "high", (pivot - x) * weight for "low" (pivots 20, 4 and
\* 100) and 0 without a preference, V is total_views * view_weight whatever the
\* preferences, and the weights default to 1 (view_weight to 0.1).
C3_ScoreIsClampedWeightedSum ==
    Scored => ret = Returned(ClaimScore(args.user_data, args.criteria))

\* A call with a "high" and a "low" preference, default weights and a view term.
C3_Witness ==
    /\ Scored
    /\ args.criteria = [post_count_preference |-> S("low"),
                        reading_level_preference |-> S("high")]
    /\ args.user_data = [type |-> S("user"), post_count |-> I(8),
                         reading_level |-> S("high"), total_views |-> I(35)]
    /\ ret.value = 185

\* C4: calculate_interest_score never returns a negative score, negative weights and
\* counts above the "low" pivots included, and so no record returned by
\* find_interesting_users_interactive has a negative score.
C4_ScoreNonNegative ==
    /\ Scored => ret.value >= 0
    /\ (op = "find_interesting_users_interactive" /\ ~ret.raised)
          => \A i \in 1..Len(ret.value) : ret.value[i].score >= 0

\* A call whose weighted sum is negative, with a negative weight and post_count above
\* the pivot 20, and whose result is 0.
C4_Witness ==
    /\ Scored
    /\ ClaimTotal(args.user_data, args.criteria) < 0
    /\ Get(args.criteria, "post_weight", I(1)).n < 0
    /\ Get(args.user_data, "post_count", I(0)).n > 20
    /\ ret.value = 0

\* C5: a preference option holding a value other than "high" or "low" contributes 0:
\* the score is the score of the criteria without that option.
C5_UnrecognizedPreferenceIgnored ==
    Scored =>
        \A k \in PreferenceKeys :
            (k \in DOMAIN args.criteria /\ args.criteria[k] \notin {S("high"), S("low")})
                => ret = Returned(ClaimScore(args.user_data, Without(args.criteria, k)))

\* A call with post_count_preference "medium" on a user with posts, scored by its
\* comment term alone.
C5_Witness ==
    /\ Scored
    /\ args.criteria = [post_count_preference |-> S("medium"),
                        comment_preference |-> S("high")]
    /\ args.user_data = [type |-> S("user"), post_count |-> I(8), comment_count |-> I(5)]
    /\ ret.value = 50

-----------------------------------------------------------------------------
(* The filter contract (section 4.3) *)

Filtered == op = "filter_users_by_attributes"

\* N: the (id, attributes) pairs of the graph, in all_nodes order.
AllPairs == [i \in 1..Len(node_order) |-> <<node_order[i], node_data[node_order[i]]>>]

IsUser(nd) == "type" \in DOMAIN nd /\ nd.type = S("user")

UserPairs == SelectSeq(AllPairs, LAMBDA p : IsUser(p[2]))

RECURSIVE IsSubsequence(_, _)
IsSubsequence(a, b) ==
    IF a = <<>> THEN TRUE
    ELSE IF b = <<>> THEN FALSE
    ELSE IF Head(a) = Head(b) THEN IsSubsequence(Tail(a), Tail(b))
    ELSE IsSubsequence(a, Tail(b))

\* The pair of node id is in the returned list.
InResult(id) == \E j \in 1..Len(ret.value) : ret.value[j] = <<id, node_data[id]>>

UserIds == {id \in DOMAIN node_data : IsUser(node_data[id])}

\* The user nodes whose bundle has no age key.
AgelessUsers == {id \in UserIds : "age" \notin DOMAIN node_data[id]}

\* The user nodes whose age is present and is not a number (None).
NonNumericAgeUsers ==
    {id \in UserIds : "age" \in DOMAIN node_data[id] /\ node_data[id].age.t # "int"}

\* C6 as stated: the result is a subsequence of N, and an empty filter spec returns
\* all of N.
C6_AsStated ==
    (Filtered /\ ~ret.raised) =>
        /\ IsSubsequence(ret.value, AllPairs)
        /\ args.filters = <<>> => ret.value = AllPairs

\* C6: whenever filter_users_by_attributes returns, its result is a subsequence of N's
\* pairs of type "user", in N's order; with an empty filter spec it returns, and
\* returns exactly the pairs of N of type "user" (the post nodes are dropped).
C6_SubsequenceOfUsers ==
    Filtered =>
        /\ ~ret.raised => IsSubsequence(ret.value, UserPairs)
        /\ args.filters = <<>> => ret = Returned(UserPairs)

\* An empty filter spec on a graph of three nodes, the first one a post.
C6_Witness ==
    /\ Filtered
    /\ args.filters = <<>>
    /\ Len(node_order) = 3
    /\ ~IsUser(node_data[node_order[1]])
    /\ ~ret.raised
    /\ Len(ret.value) = 2

AgeMin30 == <<Entry("age_min", I(30))>>

AgeMax30 == <<Entry("age_max", I(30))>>

\* C7 as stated: a user node without an age key fails {age_min: 30} and passes
\* {age_max: 30}.
C7_AsStated ==
    (Filtered /\ ~ret.raised) =>
        \A id \in AgelessUsers :
            /\ args.filters = AgeMin30 => ~InResult(id)
            /\ args.filters = AgeMax30 => InResult(id)

\* C7: a user node without an age key fails {age_min: 30} (its age counts as 0) and
\* fails {age_max: 30} too (its age counts as 100); neither comparison raises: a call
\* with one of these filters raises only when another node has an age that is not a
\* number.
C7_MissingAgeFailsBothBounds ==
    (Filtered /\ args.filters \in {AgeMin30, AgeMax30}) =>
        /\ ~ret.raised => \A id \in AgelessUsers : ~InResult(id)
        /\ ret.raised => NonNumericAgeUsers # {}

\* {age_max: 30} on a graph whose only user nodes have no age key: nothing is returned.
C7_Witness ==
    /\ Filtered
    /\ args.filters = AgeMax30
    /\ AgelessUsers # {}
    /\ UserIds = AgelessUsers
    /\ ret = Returned(<<>>)

\* The user pairs whose bundle satisfies P, in N's order.
UsersWhere(P(_)) == SelectSeq(UserPairs, LAMBDA p : P(p[2]))

\* C8 as stated: {comment_count_min: b} passes exactly the nodes whose comment_count
\* is >= b, {post_count_max: b} exactly those whose post_count is <= b.
C8_AsStated ==
    (Filtered /\ ~ret.raised /\ Len(args.filters) = 1) =>
        LET attr == args.filters[1][1]
            b == args.filters[1][2]
        IN  /\ attr = "comment_count_min" =>
                 ret.value = UsersWhere(LAMBDA nd : ClaimCount(nd, "comment_count") >= b.n)
            /\ attr = "post_count_max" =>
                 ret.value = UsersWhere(LAMBDA nd : ClaimCount(nd, "post_count") <= b.n)

\* C8: only age has range bounds.  {age_min: b} passes exactly the user nodes whose age
\* (0 without the key) is >= b, {age_max: b} exactly those whose age (100 without the
\* key) is <= b, and the call raises when some user node's age is not a number; any
\* other key, comment_count_min and post_count_max included, passes exactly the user
\* nodes that have an attribute of that very name equal to the bound.
C8_OnlyAgeHasRangeBounds ==
    (Filtered /\ Len(args.filters) = 1) =>
        LET attr == args.filters[1][1]
            b == args.filters[1][2]
        IN  /\ attr = "age_min" =>
                 ret = IF NonNumericAgeUsers # {} THEN Raised
                       ELSE Returned(UsersWhere(LAMBDA nd : Get(nd, "age", I(0)).n >= b.n))
            /\ attr = "age_max" =>
                 ret = IF NonNumericAgeUsers # {} THEN Raised
                       ELSE Returned(UsersWhere(LAMBDA nd : Get(nd, "age", I(100)).n <= b.n))
            /\ (attr \in {"comment_count_min", "post_count_max"}) =>
                 ret = Returned(UsersWhere(LAMBDA nd : attr \in DOMAIN nd /\ nd[attr] = b))

\* {comment_count_min: 2} returns a node whose comment_count is 1 and whose attribute
\* comment_count_min is 2, and leaves out a node whose comment_count is 120.
C8_Witness ==
    /\ Filtered
    /\ args.filters = <<Entry("comment_count_min", I(2))>>
    /\ \E i, j \in 1..Len(node_order) :
          /\ node_data[node_order[i]] = PoolSparse
          /\ node_data[node_order[j]] = PoolHeavy
          /\ ret = Returned(<<AllPairs[i]>>)

\* An entry of the filter spec holds for a bundle: an exact-match entry when the
\* bundle has the key with that value, age_min and age_max when the age (0 and 100
\* without the key) is within the bound.
ClaimEntryHolds(nd, entry) ==
    IF entry[1] = "age_min"
    THEN Get(nd, "age", I(0)).t = "int" /\ Get(nd, "age", I(0)).n >= entry[2].n
    ELSE IF entry[1] = "age_max"
    THEN Get(nd, "age", I(100)).t = "int" /\ Get(nd, "age", I(100)).n <= entry[2].n
    ELSE entry[1] \in DOMAIN nd /\ nd[entry[1]] = entry[2]

ExactOrAgeKeys == {"age_min", "age_max", "gender", "location"}

\* C9 as stated: a user node is returned if and only if every entry of the filter spec
\* holds for it, and an exact-match entry on a key the node lacks never holds.
C9_AsStated ==
    (/\ Filtered
     /\ ~ret.raised
     /\ \A i \in 1..Len(args.filters) : args.filters[i][1] \in ExactOrAgeKeys) =>
        \A id \in UserIds :
            InResult(id) <=>
                \A i \in 1..Len(args.filters) : ClaimEntryHolds(node_data[id], args.filters[i])

-----------------------------------------------------------------------------
(* The top-K contract (section 4.5) *)

Found == op = "find_interesting_users_interactive"

\* C: the candidates of the call, the user nodes that pass the filter spec.
Candidates == CandidateUsers(node_order, node_data, args.filters).value

\* The result record of a candidate.
RecordOf(c) ==
    [user_id |-> c[1], score |-> calculate_interest_score(c[2], args.criteria),
     data |-> c[2]]

\* a ranks before b: the greater score, and the smaller id between equal scores.
RanksBefore(a, b) ==
    \/ a.score > b.score
    \/ a.score = b.score /\ StrLess(a.user_id, b.user_id)

\* C1: with k >= |C| the call returns every candidate exactly once, by descending
\* score and, between equal scores, by ascending id.
C1_AllCandidatesInRankOrder ==
    (Found /\ ~ret.raised /\ args.num_users >= Len(Candidates)) =>
        /\ Len(ret.value) = Len(Candidates)
        /\ \A c \in 1..Len(Candidates) :
              \E i \in 1..Len(ret.value) : ret.value[i] = RecordOf(Candidates[c])
        /\ \A i, j \in 1..Len(ret.value) :
              i < j => RanksBefore(ret.value[i], ret.value[j])

\* Three candidates are returned, the first two with equal scores, and the first was
\* inserted in the graph after the second.
C1_Witness ==
    /\ Found
    /\ ~ret.raised
    /\ Len(ret.value) = 3
    /\ args.num_users >= 3
    /\ ret.value[1].score = ret.value[2].score
    /\ \E i, j \in 1..Len(node_order) :
          /\ i > j
          /\ node_order[i] = ret.value[1].user_id
          /\ node_order[j] = ret.value[2].user_id

\* The full ranking of a set of result records: the record that ranks before all the
\* others, then the full ranking of the others.
RECURSIVE FullRanking(_)
FullRanking(records) ==
    IF records = {} THEN <<>>
    ELSE LET first == CHOOSE r \in records : \A q \in records \ {r} : RanksBefore(r, q)
         IN  <<first>> \o FullRanking(records \ {first})

\* C2: for every k the call returns, without an error, the first max(0, min(k, |C|))
\* records of the full ranking of C: nothing when k <= 0 or C is empty.
C2_PrefixOfFullRanking ==
    (Found /\ ~CandidateUsers(node_order, node_data, args.filters).raised) =>
        LET full == FullRanking({RecordOf(Candidates[c]) : c \in 1..Len(Candidates)})
            n == Max(0, Min(args.num_users, Len(Candidates)))
        IN  ret = Returned(SubSeq(full, 1, n))

\* Two of three candidates are asked for and returned.
C2_Witness ==
    /\ Found
    /\ Len(Candidates) = 3
    /\ args.num_users = 2
    /\ ~ret.raised
    /\ Len(ret.value) = 2

-----------------------------------------------------------------------------
(* Totality on a built graph (section 7) *)

RankingOps ==
    {"calculate_interest_score", "filter_users_by_attributes",
     "find_interesting_users_interactive"}

\* C10 as stated: on a graph built with add_user and add_post from constructed users,
\* users with age, gender and region omitted included, no ranking call raises.
C10_AsStated == op \in RankingOps => ~ret.raised

-----------------------------------------------------------------------------
(* Counts in the store against the objects (sections 3, 4.2 and 7) *)

\* The User object a user bundle refers to, the Post object a post bundle refers to.
UserObjOf(nd) == userObjs[nd.user_obj.s]

PostObjOf(nd) == postObjs[nd.post_obj.n]

\* The views recorded so far on the posts of a user.
ViewsReceived(user_obj) ==
    Cardinality({<<p, i>> \in (1..Len(postObjs)) \X (1..MaxOps + 1) :
                    /\ \E j \in 1..Len(user_obj.posts) : user_obj.posts[j] = p
                    /\ i <= Len(postObjs[p].views)})

PostNodeCurrent(nd) ==
    /\ nd.view_count = I(Len(PostObjOf(nd).views))
    /\ nd.comment_count = I(Len(PostObjOf(nd).comments))

UserNodeCurrent(nd) ==
    /\ nd.post_count = I(Len(UserObjOf(nd).posts))
    /\ nd.comment_count = I(Len(UserObjOf(nd).comments_authored))
    /\ nd.total_views = I(ViewsReceived(UserObjOf(nd)))

\* C11 as stated: in every state reached by make_post, view_a_post,
\* comment_on_a_post, add_user and add_post in any interleaving, every node of the
\* store reports the counts of its object as they are now: a post node the number
\* of its views and comments, a user node the number of its posts, of its comments
\* and of the views on its posts.
C11_AsStated ==
    \A id \in DOMAIN node_data :
        IF node_data[id].type = S("post")
        THEN PostNodeCurrent(node_data[id])
        ELSE UserNodeCurrent(node_data[id])

-----------------------------------------------------------------------------
(* The kind of a node (section 3) *)

\* C12 as stated: no step changes the 'type' attribute of a node id that is already
\* in the store, an add_post whose id is the username of a user node and an
\* add_user whose username is the id of a post node included.
C12_AsStated ==
    [][\A id \in DOMAIN node_data : node_data'[id].type = node_data[id].type]_vars

-----------------------------------------------------------------------------
(* The ranking reads the graph only (sections 3 and 6) *)

\* C13: a ranking call (find_interesting_users_interactive, with its calls of
\* filter_users_by_attributes and calculate_interest_score) leaves node_data and its
\* key order, users, posts and adjacency_list (its keys and every edge list) as
\* they were before the call, whatever the criteria, the filter spec and k, and
\* whether it returns or raises.
C13_RankingLeavesGraphUnchanged ==
    [][op' \in RankingOps =>
          /\ node_data' = node_data
          /\ node_order' = node_order
          /\ users' = users
          /\ posts' = posts
          /\ DOMAIN adjacency_list' = DOMAIN adjacency_list
          /\ \A source \in DOMAIN adjacency_list :
                adjacency_list'[source] = adjacency_list[source]]_vars

\* A ranking of a graph with a user node, a post node and an edge has returned a
\* record.
C13_Witness ==
    /\ op = "find_interesting_users_interactive"
    /\ ~ret.raised
    /\ Len(ret.value) >= 1
    /\ \E id \in DOMAIN node_data : node_data[id].type = S("post")
    /\ \E source \in DOMAIN adjacency_list : Len(adjacency_list[source]) >= 1

-----------------------------------------------------------------------------
(* Comments and views of the objects (section 3) *)

\* The places of the comment lists of the posts, and of the users, that hold
\* comment c.
PostPlacesOf(c) ==
    UNION {{<<p, i>> : i \in {k \in 1..Len(postObjs[p].comments) :
                                  postObjs[p].comments[k] = c}} :
           p \in 1..Len(postObjs)}

UserPlacesOf(c) ==
    UNION {{<<u, i>> : i \in {k \in 1..Len(userObjs[u].comments_authored) :
                                  userObjs[u].comments_authored[k] = c}} :
           u \in DOMAIN userObjs}

AllPostPlaces ==
    UNION {{<<p, i>> : i \in 1..Len(postObjs[p].comments)} : p \in 1..Len(postObjs)}

AllUserPlaces ==
    UNION {{<<u, i>> : i \in 1..Len(userObjs[u].comments_authored)} :
           u \in DOMAIN userObjs}

IsPrefix(a, b) == Len(a) <= Len(b) /\ SubSeq(b, 1, Len(a)) = a

CommentsPlacedOnce ==
    /\ \A c \in 1..Len(commentObjs) :
          /\ Cardinality(PostPlacesOf(c)) = 1
          /\ Cardinality(UserPlacesOf(c)) = 1
          /\ \A place \in UserPlacesOf(c) : place[1] = commentObjs[c].author_username
    /\ Cardinality(AllPostPlaces) = Cardinality(AllUserPlaces)
    /\ Cardinality(AllPostPlaces) = Len(commentObjs)

ListsOnlyGrow ==
    /\ Len(postObjs') >= Len(postObjs)
    /\ \A p \in 1..Len(postObjs) :
          /\ IsPrefix(postObjs[p].comments, postObjs'[p].comments)
          /\ IsPrefix(postObjs[p].views, postObjs'[p].views)

\* C14: in every state every created comment is at exactly one place of the comment
\* lists of the posts and at exactly one place of the comments_authored lists of
\* the users, that of its author, so the posts hold as many comments as the users;
\* and every step keeps the comments and the views of every post as a prefix of
\* what they are after it.
C14_CommentsPlacedOnceAndAppendOnly ==
    []CommentsPlacedOnce /\ [][ListsOnlyGrow]_vars

\* A second comment has been appended to a post that had one.
C14_Witness ==
    /\ Len(commentObjs) >= 2
    /\ \E p \in 1..Len(postObjs) : Len(postObjs[p].comments) >= 2

-----------------------------------------------------------------------------
(* _estimate_reading_level on its own: the text is drawn in the initial state and  *)
(* the one step applies the function to it.                                        *)

\* The length of the longest text drawn.
MaxText == 10

TextChars == {"a", " ", "\n"}

Texts == UNION {[1..n -> TextChars] : n \in 0..MaxText}

\* network._estimate_reading_level(content)
LevelCall(content) ==
    /\ op' = "_estimate_reading_level"
    /\ args' = [content |-> content]
    /\ ret' = Returned(S(estimate_reading_level(content)))
    /\ UNCHANGED <<graph, objects, steps>>

InitLevel ==
    /\ NoObjects
    /\ node_order = <<>>
    /\ node_data = EmptyDict
    /\ Pending
    /\ args \in [content : Texts]

NextLevel ==
    /\ op = "init"
    /\ DOMAIN args = {"content"}
    /\ LevelCall(args.content)

SpecLevel == InitLevel /\ [][NextLevel]_vars

(* The reading level as the specification states it (sections 3 and 4.2) *)

\* The characters of the words of a text, and the places where a word starts.
WordCharsOf(content) == {i \in 1..Len(content) : content[i] \notin Whitespace}

WordStartsOf(content) ==
    {i \in WordCharsOf(content) : i = 1 \/ content[i - 1] \in Whitespace}

ClaimReadingLevel(content) ==
    LET chars == Cardinality(WordCharsOf(content))
        count == Cardinality(WordStartsOf(content))
    IN  IF count = 0 THEN "low"
        ELSE IF chars > 6 * count THEN "high"
        ELSE IF chars > 4 * count THEN "medium"
        ELSE "low"

\* C15: for every text _estimate_reading_level returns 'high' when the mean length
\* of its whitespace-separated words is > 6, 'medium' when it is > 4 and <= 6, and
\* 'low' otherwise, a text with no word (empty or all whitespace) giving 'low'.
C15_LevelByMeanWordLength ==
    op = "_estimate_reading_level" =>
        ret = Returned(S(ClaimReadingLevel(args.content)))

\* A text of two words has been rated 'medium'.
C15_Witness ==
    /\ op = "_estimate_reading_level"
    /\ Cardinality(WordStartsOf(args.content)) = 2
    /\ ret = Returned(S("medium"))

====
